---- MODULE Spec2Model ----
(***************************************************************************)
(* Model of the netpbm graymap decoder of src/src/parser.rs: the tokenizer *)
(* BytesParser (take_line, take_rest), the numeric readers parse_usize and *)
(* parse_u16, and the header/body loop of parse.                           *)
(*                                                                         *)
(* Bytes are the integers 0..255, byte slices are sequences of bytes.      *)
(* Offsets (whitespace_index, prev_whitespace_index) are 0-based as in the *)
(* source; Slice(s, a, b) is the Rust range s[a..b].  Option values are    *)
(* sequences of length at most one: None is << >>, Some(x) is << x >>.     *)
(*                                                                         *)
(* A panic (slice index out of range, arithmetic overflow in a build with   *)
(* overflow checks, todo!()) ends the run with the corresponding result.   *)
(***************************************************************************)
EXTENDS Integers, Sequences, FiniteSets, TLC

(***************************************************************************)
(* Bounds of the input space.                                              *)
(***************************************************************************)
\* longest enumerated body (all byte sequences over BodyBytes up to it)
MaxBody == 3

(***************************************************************************)
(* Bytes the source names.                                                 *)
(***************************************************************************)
SPACE == 32
NEWLINE == 10
CARRIAGE_RETURN == 13
TAB == 9
HASH == 35
ASCII_ZERO == 48
U8_RANGE == 256
U16_RANGE == 65536

WHITESPACE_BYTES == {SPACE, NEWLINE, CARRIAGE_RETURN, TAB}

PBM_ASCII == <<80, 49>>
PGM_ASCII == <<80, 50>>
PPM_ASCII == <<80, 51>>
PBM_BINARY == <<80, 52>>
PGM_BINARY == <<80, 53>>
PPM_BINARY == <<80, 54>>
PAM_BINARY == <<80, 55>>

None == << >>
Some(x) == << x >>
unwrap(o) == o[1]

\* the Rust range s[a..b], for 0 <= a <= b <= Len(s)
Slice(s, a, b) == SubSeq(s, a + 1, b)

\* Iterator::position over a slice: the 0-based index of the first
\* whitespace byte, None when there is none
position(searchable) ==
    IF \E i \in 1..Len(searchable) : searchable[i] \in WHITESPACE_BYTES
    THEN Some((CHOOSE i \in 1..Len(searchable) :
                  /\ searchable[i] \in WHITESPACE_BYTES
                  /\ \A j \in 1..(i - 1) : searchable[j] \notin WHITESPACE_BYTES) - 1)
    ELSE None

(***************************************************************************)
(* BytesParser::take_line.  The result names the panic ("none" when the    *)
(* call returns), the new cursor and the returned line.                    *)
(*  - contents[whitespace_index..] panics when whitespace_index is beyond  *)
(*    the slice, before the cursor is touched;                             *)
(*  - when no whitespace byte is found whitespace_index is left unchanged  *)
(*    and contents[prev .. whitespace_index - 1] panics: at index 0 the    *)
(*    subtraction overflows (a panic with overflow checks, else it wraps   *)
(*    to usize::MAX and the slice end is out of range), at any other index *)
(*    the slice starts after its end.                                      *)
(***************************************************************************)
\* an off-by-one slice end: the delimiter is left in the token
take_line_keeps_delimiter(buf, wi, pwi, checks) ==
    IF wi > Len(buf)
    THEN [panic |-> "PanicSliceIndex", whitespace_index |-> wi,
          prev_whitespace_index |-> pwi, line |-> << >>]
    ELSE LET found == position(Slice(buf, wi, Len(buf)))
         IN  IF found = None
             THEN [panic |-> IF wi = 0 /\ checks THEN "PanicOverflow"
                                                 ELSE "PanicSliceIndex",
                   whitespace_index |-> wi,
                   prev_whitespace_index |-> wi, line |-> << >>]
             ELSE [panic |-> "none",
                   whitespace_index |-> wi + unwrap(found) + 1,
                   prev_whitespace_index |-> wi,
                   line |-> Slice(buf, wi, wi + unwrap(found) + 1)]

take_line(buf, wi, pwi, checks) ==
    IF wi > Len(buf)
    THEN [panic |-> "PanicSliceIndex", whitespace_index |-> wi,
          prev_whitespace_index |-> pwi, line |-> << >>]
    ELSE LET found == position(Slice(buf, wi, Len(buf)))
         IN  IF found = None
             THEN [panic |-> IF wi = 0 /\ checks THEN "PanicOverflow"
                                                 ELSE "PanicSliceIndex",
                   whitespace_index |-> wi,
                   prev_whitespace_index |-> wi, line |-> << >>]
             ELSE [panic |-> "none",
                   whitespace_index |-> wi + unwrap(found) + 1,
                   prev_whitespace_index |-> wi,
                   line |-> Slice(buf, wi, wi + unwrap(found))]

(***************************************************************************)
(* BytesParser::take_rest.                                                 *)
(***************************************************************************)
take_rest(buf, wi) ==
    [whitespace_index |-> Len(buf),
     prev_whitespace_index |-> wi,
     line |-> Slice(buf, wi, Len(buf))]

(***************************************************************************)
(* The numeric readers.  Each byte contributes result*10 + (byte - b'0'),  *)
(* the subtraction in u8 and the rest in the destination type.  With       *)
(* overflow checks (debug builds) an overflowing operation panics; without *)
(* them (release builds) it wraps.  parse_usize accumulates in usize,      *)
(* whose range no token of the modelled length can leave.                  *)
(***************************************************************************)
RECURSIVE parse_u16_from(_, _, _)
parse_u16_from(bytes, result, checks) ==
    IF bytes = << >>
    THEN [panic |-> "none", value |-> result]
    ELSE LET mul == result * 10
             digit == Head(bytes) - ASCII_ZERO
             wrapped == (digit + U8_RANGE) % U8_RANGE
         IN  IF checks /\ (mul >= U16_RANGE \/ digit < 0
                            \/ (mul % U16_RANGE) + wrapped >= U16_RANGE)
             THEN [panic |-> "PanicOverflow", value |-> 0]
             ELSE parse_u16_from(Tail(bytes),
                                 ((mul % U16_RANGE) + wrapped) % U16_RANGE,
                                 checks)

parse_u16(bytes, checks) == parse_u16_from(bytes, 0, checks)

RECURSIVE parse_usize_from(_, _, _)
parse_usize_from(bytes, result, checks) ==
    IF bytes = << >>
    THEN [panic |-> "none", value |-> result]
    ELSE LET digit == Head(bytes) - ASCII_ZERO
             wrapped == (digit + U8_RANGE) % U8_RANGE
         IN  IF checks /\ digit < 0
             THEN [panic |-> "PanicOverflow", value |-> 0]
             ELSE parse_usize_from(Tail(bytes), result * 10 + wrapped, checks)

parse_usize(bytes, checks) == parse_usize_from(bytes, 0, checks)

(***************************************************************************)
(* The binary graymap decoders of the Data arm.                            *)
(***************************************************************************)
\* max_value > 255: even offsets push the byte, odd offsets shift the last
\* sample left by 8 and add the byte
RECURSIVE decode_16bit(_, _, _)
decode_16bit(bytes, i, data) ==
    IF bytes = << >>
    THEN data
    ELSE IF i % 2 = 0
         THEN decode_16bit(Tail(bytes), i + 1, Append(data, Head(bytes)))
         ELSE decode_16bit(Tail(bytes), i + 1,
                  IF data = << >>
                  THEN data
                  ELSE [data EXCEPT ![Len(data)] =
                           ((data[Len(data)] * U8_RANGE) % U16_RANGE) + Head(bytes)])

\* max_value <= 255: every byte widened to u16
decode_8bit(bytes, data) == data \o bytes

(***************************************************************************)
(* The buffers parse is applied to.  A buffer is put together from an      *)
(* optional leading line, the four header tokens, each followed by the     *)
(* same whitespace byte, and a body; `keep' bytes of it are kept, so that  *)
(* a header can end anywhere.                                              *)
(***************************************************************************)
\* nothing, two blank lines, "#c\n", "# c\n"
Prefixes == { << >>, <<NEWLINE, NEWLINE>>, <<HASH, 99, NEWLINE>>,
              <<HASH, SPACE, 99, NEWLINE>> }

\* P1 .. P7 and the unknown P9
KnownMagics == {PBM_ASCII, PGM_ASCII, PPM_ASCII, PBM_BINARY, PGM_BINARY,
                PPM_BINARY, PAM_BINARY}
MagicTokens == KnownMagics \cup { <<80, 57>> }

\* "1", "2", "/" (a byte below b'0')
WidthTokens == { <<49>>, <<50>>, <<47>> }
\* "1", "2"
HeightTokens == { <<49>>, <<50>> }
\* "255", "256", "65535", "65536", "2A"
MaxValueTokens == { <<50, 53, 53>>, <<50, 53, 54>>, <<54, 53, 53, 51, 53>>,
                    <<54, 53, 53, 51, 54>>, <<50, 65>> }
Separators == {SPACE, NEWLINE}

BodyBytes == {0, 1, HASH, SPACE, 255}

RECURSIVE SeqsUpTo(_, _)
SeqsUpTo(S, n) ==
    IF n = 0
    THEN { << >> }
    ELSE LET shorter == SeqsUpTo(S, n - 1)
         IN  shorter \cup { Append(s, b) : s \in shorter, b \in S }

\* the spec's 16-bit example, and the ASCII bodies "1 2  3\n" and "1 2 x\n"
ExampleBodies == { <<1, 2, 0, 255>>,
                   <<49, 32, 50, 32, 32, 51, 10>>,
                   <<49, 32, 50, 32, 120, 10>> }
Bodies == SeqsUpTo(BodyBytes, MaxBody) \cup ExampleBodies
ShortBodies == { << >>, <<1>>, <<HASH, 1>> }

Header(i) ==
    i.prefix \o i.magic \o <<i.sep>> \o i.width \o <<i.sep>>
             \o i.height \o <<i.sep>> \o i.max_value \o <<i.sep>>
Full(i) == Header(i) \o i.body
Build(i) == SubSeq(Full(i), 1, i.keep)

Complete(S) == { [i EXCEPT !.keep = Len(Full(i))] : i \in S }

\* every header, with a short body
HeaderVariety ==
    Complete([prefix : Prefixes, magic : MagicTokens, width : WidthTokens,
              height : HeightTokens, max_value : MaxValueTokens,
              sep : Separators, body : ShortBodies, keep : {0}])

\* every body, behind the plain graymap headers
BodyVariety ==
    Complete([prefix : { << >> }, magic : {PGM_ASCII, PGM_BINARY},
              width : { <<49>>, <<50>> }, height : HeightTokens,
              max_value : { <<50, 53, 53>>, <<50, 53, 54>>,
                            <<54, 53, 53, 51, 53>> },
              sep : {NEWLINE}, body : Bodies, keep : {0}])

\* buffers that end inside the header
Truncated ==
    { [i EXCEPT !.keep = k] :
        i \in [prefix : Prefixes, magic : MagicTokens, width : { <<49>> },
               height : { <<50>> }, max_value : { <<50, 53, 53>> },
               sep : Separators, body : { << >> }, keep : {0}],
        k \in 0..11 }

Inputs == HeaderVariety \cup BodyVariety
              \cup { i \in Truncated : i.keep < Len(Header(i)) }

(***************************************************************************)
(* State of a parse call.  The caller applies parse to the buffer, and     *)
(* once more when the first call has ended.                                *)
(***************************************************************************)
VARIABLES
    input,                  \* how the buffer was put together
    contents,               \* the buffer, parse's argument
    overflow_checks,        \* the build panics on arithmetic overflow
    call,                   \* "first" or "second" call of parse
    first,                  \* what the first call gave, None while it runs
    pc,                     \* "take", "dispatch", "ascii" (the while-let loop), "done"
    result,                 \* "running", "Ok", "ErrUnsupported", or a panic
    parse_state,
    pgm_type, width, height, max_value,
    data,
    line,
    whitespace_index, prev_whitespace_index

vars == <<input, contents, overflow_checks, call, first, pc, result,
          parse_state,
          pgm_type, width, height, max_value, data, line,
          whitespace_index, prev_whitespace_index>>

PgmParseState == {"Type", "Width", "Height", "MaxValue", "Data"}
Panics == {"PanicSliceIndex", "PanicOverflow", "PanicTodo"}

Init ==
    /\ input \in Inputs
    /\ contents = Build(input)
    /\ overflow_checks \in BOOLEAN
    /\ call = "first"
    /\ first = None
    /\ pc = "take"
    /\ result = "running"
    /\ parse_state = "Type"
    /\ pgm_type = None
    /\ width = None
    /\ height = None
    /\ max_value = None
    /\ data = << >>
    /\ line = << >>
    /\ whitespace_index = 0
    /\ prev_whitespace_index = 0

(***************************************************************************)
(* The loop of parse.  An iteration is two steps: at "take" the next line  *)
(* is fetched (parser.rs:111, take_line outside the Data state, take_rest  *)
(* in it), at "dispatch" the line is skipped or handed to the arm of the   *)
(* current state (parser.rs:113-184).                                      *)
(***************************************************************************)
NextLine == take_line(contents, whitespace_index, prev_whitespace_index,
                      overflow_checks)

Rest == take_rest(contents, whitespace_index)

starts_with_hash(l) == l # << >> /\ Head(l) = HASH
Skipped(l) == l = << >> \/ starts_with_hash(l)

Panic(kind) ==
    /\ pc' = "done"
    /\ result' = kind

Cursor(r) ==
    /\ whitespace_index' = r.whitespace_index
    /\ prev_whitespace_index' = r.prev_whitespace_index

\* take_line returns the next token
TakeLine ==
    /\ pc = "take" /\ parse_state # "Data"
    /\ NextLine.panic = "none"
    /\ Cursor(NextLine)
    /\ line' = NextLine.line
    /\ pc' = "dispatch"
    /\ UNCHANGED <<input, contents, overflow_checks, call, first,
                   result, parse_state,
                   pgm_type, width, height, max_value, data>>

\* take_line panics: no whitespace byte is left in the buffer
TakeLinePanics ==
    /\ pc = "take" /\ parse_state # "Data"
    /\ NextLine.panic # "none"
    /\ Cursor(NextLine)
    /\ Panic(NextLine.panic)
    /\ UNCHANGED <<input, contents, overflow_checks, call, first,
                   parse_state, pgm_type,
                   width, height, max_value, data, line>>

\* in the Data state the line is the whole remainder
TakeRest ==
    /\ pc = "take" /\ parse_state = "Data"
    /\ Cursor(Rest)
    /\ line' = Rest.line
    /\ pc' = "dispatch"
    /\ UNCHANGED <<input, contents, overflow_checks, call, first,
                   result, parse_state,
                   pgm_type, width, height, max_value, data>>

\* an empty or '#'-led line: continue, in whatever state
Continue ==
    /\ pc = "dispatch"
    /\ Skipped(line)
    /\ pc' = "take"
    /\ UNCHANGED <<input, contents, overflow_checks, call, first,
                   result, parse_state,
                   pgm_type, width, height, max_value, data, line,
                   whitespace_index, prev_whitespace_index>>

ReadType ==
    /\ pc = "dispatch" /\ parse_state = "Type"
    /\ ~Skipped(line)
    /\ pgm_type' = Some(line)
    /\ parse_state' = "Width"
    /\ pc' = "take"
    /\ UNCHANGED <<input, contents, overflow_checks, call, first,
                   result, width, height,
                   max_value, data, line, whitespace_index,
                   prev_whitespace_index>>

ReadWidth ==
    /\ pc = "dispatch" /\ parse_state = "Width"
    /\ ~Skipped(line)
    /\ LET n == parse_usize(line, overflow_checks)
       IN  IF n.panic # "none"
           THEN Panic(n.panic) /\ UNCHANGED <<parse_state, width>>
           ELSE /\ width' = Some(n.value)
                /\ parse_state' = "Height"
                /\ pc' = "take"
                /\ UNCHANGED result
    /\ UNCHANGED <<input, contents, overflow_checks, call, first,
                   pgm_type, height,
                   max_value, data, line, whitespace_index,
                   prev_whitespace_index>>

ReadHeight ==
    /\ pc = "dispatch" /\ parse_state = "Height"
    /\ ~Skipped(line)
    /\ LET n == parse_usize(line, overflow_checks)
       IN  IF n.panic # "none"
           THEN Panic(n.panic) /\ UNCHANGED <<parse_state, height>>
           ELSE /\ height' = Some(n.value)
                /\ parse_state' = "MaxValue"
                /\ pc' = "take"
                /\ UNCHANGED result
    /\ UNCHANGED <<input, contents, overflow_checks, call, first,
                   pgm_type, width,
                   max_value, data, line, whitespace_index,
                   prev_whitespace_index>>

ReadMaxValue ==
    /\ pc = "dispatch" /\ parse_state = "MaxValue"
    /\ ~Skipped(line)
    /\ LET n == parse_u16(line, overflow_checks)
       IN  IF n.panic # "none"
           THEN Panic(n.panic) /\ UNCHANGED <<parse_state, max_value>>
           ELSE /\ max_value' = Some(n.value)
                /\ parse_state' = "Data"
                /\ pc' = "take"
                /\ UNCHANGED result
    /\ UNCHANGED <<input, contents, overflow_checks, call, first,
                   pgm_type, width,
                   height, data, line, whitespace_index,
                   prev_whitespace_index>>

\* P5: decode the remainder, break, return the Image
DecodeBinary ==
    /\ pc = "dispatch" /\ parse_state = "Data"
    /\ ~Skipped(line)
    /\ unwrap(pgm_type) = PGM_BINARY
    /\ data' = IF unwrap(max_value) > 255
               THEN decode_16bit(line, 0, data)
               ELSE decode_8bit(line, data)
    /\ pc' = "done"
    /\ result' = "Ok"
    /\ UNCHANGED <<input, contents, overflow_checks, call, first,
                   parse_state, pgm_type,
                   width, height, max_value, line, whitespace_index,
                   prev_whitespace_index>>

\* P2: enter the while-let loop over the remainder
EnterAscii ==
    /\ pc = "dispatch" /\ parse_state = "Data"
    /\ ~Skipped(line)
    /\ unwrap(pgm_type) = PGM_ASCII
    /\ pc' = "ascii"
    /\ UNCHANGED <<input, contents, overflow_checks, call, first,
                   result, parse_state,
                   pgm_type, width, height, max_value, data, line,
                   whitespace_index, prev_whitespace_index>>

\* P1, P3, P4, P6, P7: todo!()
Unimplemented ==
    /\ pc = "dispatch" /\ parse_state = "Data"
    /\ ~Skipped(line)
    /\ unwrap(pgm_type) \in {PBM_ASCII, PBM_BINARY, PPM_ASCII, PPM_BINARY,
                             PAM_BINARY}
    /\ Panic("PanicTodo")
    /\ UNCHANGED <<input, contents, overflow_checks, call, first,
                   parse_state, pgm_type,
                   width, height, max_value, data, line, whitespace_index,
                   prev_whitespace_index>>

\* any other magic number: Err(Unsupported)
UnknownFormat ==
    /\ pc = "dispatch" /\ parse_state = "Data"
    /\ ~Skipped(line)
    /\ unwrap(pgm_type) \notin KnownMagics
    /\ pc' = "done"
    /\ result' = "ErrUnsupported"
    /\ UNCHANGED <<input, contents, overflow_checks, call, first,
                   parse_state, pgm_type,
                   width, height, max_value, data, line, whitespace_index,
                   prev_whitespace_index>>

(***************************************************************************)
(* One iteration of `while let Ok(some) = bytes_parser.take_line(line)':   *)
(* the tokenizer is applied to the remainder with the cursor take_rest     *)
(* left at contents.len().  take_line and parse_u16 never return Err, so   *)
(* the loop is left by a panic only.                                       *)
(***************************************************************************)
AsciiToken ==
    /\ pc = "ascii"
    /\ LET some == take_line(line, whitespace_index, prev_whitespace_index,
                             overflow_checks)
           val == parse_u16(some.line, overflow_checks)
       IN  /\ Cursor(some)
           /\ IF some.panic # "none"
              THEN Panic(some.panic) /\ UNCHANGED data
              ELSE IF some.line = << >>
                   THEN UNCHANGED <<pc, result, data>>
                   ELSE IF val.panic # "none"
                        THEN Panic(val.panic) /\ UNCHANGED data
                        ELSE /\ data' = Append(data, val.value)
                             /\ UNCHANGED <<pc, result>>
    /\ UNCHANGED <<input, contents, overflow_checks, call, first,
                   parse_state, pgm_type,
                   width, height, max_value, line>>

(***************************************************************************)
(* The second call on the same buffer: parse starts from its own locals    *)
(* (parser.rs:103-109), a new BytesParser at index 0 and the Type state;   *)
(* nothing of the first call but what it gave to the caller is kept.       *)
(***************************************************************************)
Outcome ==
    [result |-> result, width |-> width, height |-> height,
     max_value |-> max_value, data |-> data]

\* a BytesParser that outlives the call: the cursor is where the first call
\* left it
CallAgainStaleCursor ==
    /\ pc = "done" /\ call = "first"
    /\ call' = "second"
    /\ first' = Some(Outcome)
    /\ pc' = "take"
    /\ result' = "running"
    /\ parse_state' = "Type"
    /\ pgm_type' = None
    /\ width' = None
    /\ height' = None
    /\ max_value' = None
    /\ data' = << >>
    /\ line' = << >>
    /\ UNCHANGED <<input, contents, overflow_checks, whitespace_index,
                   prev_whitespace_index>>

CallAgain ==
    /\ pc = "done" /\ call = "first"
    /\ call' = "second"
    /\ first' = Some(Outcome)
    /\ pc' = "take"
    /\ result' = "running"
    /\ parse_state' = "Type"
    /\ pgm_type' = None
    /\ width' = None
    /\ height' = None
    /\ max_value' = None
    /\ data' = << >>
    /\ line' = << >>
    /\ whitespace_index' = 0
    /\ prev_whitespace_index' = 0
    /\ UNCHANGED <<input, contents, overflow_checks>>

Next ==
    \/ CallAgain
    \/ TakeLine
    \/ TakeLinePanics
    \/ TakeRest
    \/ Continue
    \/ ReadType
    \/ ReadWidth
    \/ ReadHeight
    \/ ReadMaxValue
    \/ DecodeBinary
    \/ EnterAscii
    \/ Unimplemented
    \/ UnknownFormat
    \/ AsciiToken

Spec == Init /\ [][Next]_vars

\* the loop is not preempted: an enabled iteration is eventually taken
FairSpec == Spec /\ WF_vars(Next)

TypeOK ==
    /\ call \in {"first", "second"}
    /\ pc \in {"take", "dispatch", "ascii", "done"}
    /\ result \in {"running", "Ok", "ErrUnsupported"} \cup Panics
    /\ parse_state \in PgmParseState
    /\ whitespace_index \in 0..Len(contents)
    /\ prev_whitespace_index \in 0..Len(contents)

(***************************************************************************)
(* Vocabulary of the properties: what a header token denotes, and what the *)
(* buffer announces.                                                       *)
(***************************************************************************)
IsDigits(token) ==
    /\ token # << >>
    /\ \A k \in 1..Len(token) : token[k] \in ASCII_ZERO..(ASCII_ZERO + 9)

RECURSIVE DecimalValue(_)
DecimalValue(token) ==
    IF token = << >>
    THEN 0
    ELSE 10 * DecimalValue(SubSeq(token, 1, Len(token) - 1))
            + (token[Len(token)] - ASCII_ZERO)

IsComplete(i) == i.keep = Len(Full(i))

\* a whole buffer with nothing before the magic number and decimal header
\* fields that fit their types
DecimalFields(i) ==
    /\ IsComplete(i)
    /\ IsDigits(i.width) /\ IsDigits(i.height) /\ IsDigits(i.max_value)
    /\ DecimalValue(i.max_value) < U16_RANGE

PlainHeader(i) == i.prefix = << >> /\ DecimalFields(i)

Returned(w, h, m, samples) ==
    /\ pc = "done"
    /\ result = "Ok"
    /\ width = Some(w)
    /\ height = Some(h)
    /\ max_value = Some(m)
    /\ data = samples

(***************************************************************************)
(* C1: for every finite buffer parse reaches a final outcome after         *)
(* finitely many iterations of its loop.                                   *)
(***************************************************************************)
C1_Terminates == <>(pc = "done")

(***************************************************************************)
(* C2: for the buffer P5 w h 255 followed by w*h bytes s, parse returns    *)
(* the Image (w, h, 255, s).                                               *)
(***************************************************************************)
RoundTripInput ==
    /\ PlainHeader(input)
    /\ input.magic = PGM_BINARY
    /\ DecimalValue(input.max_value) = 255
    /\ Len(input.body) = DecimalValue(input.width) * DecimalValue(input.height)

C2_RoundTrip8 ==
    RoundTripInput =>
        <>Returned(DecimalValue(input.width), DecimalValue(input.height),
                   255, input.body)

(***************************************************************************)
(* C3: for a P5 buffer with max_value > 255 and a body b of even length,   *)
(* parse returns len(b)/2 samples, sample k being 256*b[2k] + b[2k+1].     *)
(***************************************************************************)
Packing16Input ==
    /\ PlainHeader(input)
    /\ input.magic = PGM_BINARY
    /\ DecimalValue(input.max_value) > 255
    /\ Len(input.body) % 2 = 0

Pairs(b) == [k \in 1..(Len(b) \div 2) |-> 256 * b[2 * k - 1] + b[2 * k]]

C3_Packing16 ==
    Packing16Input =>
        <>(/\ pc = "done"
           /\ result = "Ok"
           /\ data = Pairs(input.body))

(***************************************************************************)
(* C4: for a P2 buffer whose body is decimal tokens separated by one or    *)
(* more whitespace bytes, parse returns the Image whose data is the values *)
(* of the tokens in order.                                                 *)
(***************************************************************************)
\* the values of the whitespace-separated decimal tokens of b; tok is the
\* token being read
RECURSIVE TokenValues(_, _)
TokenValues(b, tok) ==
    IF b = << >>
    THEN IF tok = << >> THEN << >> ELSE <<DecimalValue(tok)>>
    ELSE IF Head(b) \in WHITESPACE_BYTES
         THEN (IF tok = << >> THEN << >> ELSE <<DecimalValue(tok)>>)
                  \o TokenValues(Tail(b), << >>)
         ELSE TokenValues(Tail(b), Append(tok, Head(b)))

AsciiInput ==
    /\ PlainHeader(input)
    /\ input.magic = PGM_ASCII
    /\ input.body # << >>
    /\ Head(input.body) \notin WHITESPACE_BYTES
    /\ \A k \in 1..Len(input.body) :
           \/ input.body[k] \in WHITESPACE_BYTES
           \/ input.body[k] \in ASCII_ZERO..(ASCII_ZERO + 9)

C4_AsciiDecoding ==
    (AsciiInput /\ pc = "done") =>
        (result = "Ok" /\ data = TokenValues(input.body, << >>))

(***************************************************************************)
(* C5: a '#'-led comment line before the header, with or without spaces in *)
(* its text, does not change the outcome: the binary graymap behind it is  *)
(* returned as it is without the comment line.                             *)
(***************************************************************************)
CommentLines == { p \in Prefixes : p # << >> /\ Head(p) = HASH }

\* the graymap B itself: a P5 buffer whose parse returns its Image
GraymapBehind(i) ==
    /\ DecimalFields(i)
    /\ i.magic = PGM_BINARY
    /\ DecimalValue(i.max_value) <= 255
    /\ i.body # << >>
    /\ Head(i.body) # HASH

C5_CommentSkipping ==
    (/\ pc = "done"
     /\ GraymapBehind(input)
     /\ input.prefix \in CommentLines \cup { << >> }) =>
        Returned(DecimalValue(input.width), DecimalValue(input.height),
                 DecimalValue(input.max_value), input.body)

(***************************************************************************)
(* C6: a P5 buffer whose body is shorter than                              *)
(* width*height*bytes_per_sample fails with TruncatedData.                 *)
(***************************************************************************)
BytesPerSample(i) == IF DecimalValue(i.max_value) <= 255 THEN 1 ELSE 2

TruncatedBody ==
    /\ PlainHeader(input)
    /\ input.magic = PGM_BINARY
    /\ Len(input.body) < DecimalValue(input.width) * DecimalValue(input.height)
                             * BytesPerSample(input)

C6_TruncatedBody ==
    (TruncatedBody /\ pc = "done") => result = "ErrTruncatedData"

(***************************************************************************)
(* C7: a buffer whose first token is none of P1..P7 fails with             *)
(* UnsupportedFormat, whatever follows the token.                          *)
(***************************************************************************)
UnknownMagic ==
    /\ input.magic \notin KnownMagics
    /\ input.keep >= Len(input.prefix) + Len(input.magic)

C7_UnknownMagic ==
    (UnknownMagic /\ pc = "done") => result = "ErrUnsupported"

(***************************************************************************)
(* C8: a buffer whose magic number is P1, P3, P4, P6 or P7 gets a          *)
(* NotImplemented error value from parse, never a panic (stated for the    *)
(* buffers whose header is complete, so that the magic number is           *)
(* dispatched on).                                                         *)
(***************************************************************************)
UnimplementedMagics == {PBM_ASCII, PPM_ASCII, PBM_BINARY, PPM_BINARY,
                        PAM_BINARY}

C8_NotImplemented ==
    (/\ pc = "done"
     /\ parse_state = "Data"
     /\ unwrap(pgm_type) \in UnimplementedMagics) =>
        result = "ErrNotImplemented"

(***************************************************************************)
(* C9: when the buffer is exhausted before the four header fields are      *)
(* read, parse returns an IncompleteHeader error.  The buffer is exhausted *)
(* when the tokenizer is asked for the magic number, the width or the      *)
(* height and no whitespace byte is left.                                  *)
(***************************************************************************)
ExhaustedInHeader ==
    /\ pc = "done"
    /\ parse_state \in {"Type", "Width", "Height"}
    /\ prev_whitespace_index = whitespace_index
    /\ position(Slice(contents, whitespace_index, Len(contents))) = None

C9_IncompleteHeader ==
    ExhaustedInHeader => result = "ErrIncompleteHeader"

(***************************************************************************)
(* C10: a width, height or max_value token with a byte that is not a       *)
(* decimal digit, or a max_value token above 65535, makes parse fail with  *)
(* MalformedNumber.                                                        *)
(***************************************************************************)
Malformed(token, state) ==
    \/ ~IsDigits(token)
    \/ state = "MaxValue" /\ DecimalValue(token) >= U16_RANGE

C10_MalformedNumber ==
    [][(/\ pc = "dispatch"
        /\ parse_state \in {"Width", "Height", "MaxValue"}
        /\ ~Skipped(line)
        /\ Malformed(line, parse_state)) =>
           (pc' = "done" /\ result' = "ErrMalformedNumber")]_vars

(***************************************************************************)
(* C11: every Image parse returns has data.length = width * height        *)
(* (stated for the buffers whose header fields are decimal, so that width  *)
(* and height are the announced ones).                                     *)
(***************************************************************************)
C11_ImageLength ==
    (PlainHeader(input) /\ pc = "done" /\ result = "Ok") =>
        Len(data) = unwrap(width) * unwrap(height)

(***************************************************************************)
(* C12: two parse calls on the same buffer give the same outcome: the same *)
(* result and, for an Image, the same width, height, max_value and data.   *)
(* The second call starts at index 0 in the Type state and sees nothing of *)
(* the first.                                                              *)
(***************************************************************************)
C12_Deterministic ==
    (call = "second" /\ pc = "done") => Outcome = unwrap(first)

C12_Witness ==
    /\ call = "second"
    /\ pc = "done"
    /\ result = "Ok"
    /\ data # << >>
    /\ whitespace_index = Len(contents)

(***************************************************************************)
(* C13: when take_line is called and no whitespace byte lies between the   *)
(* cursor and the end of the buffer, the call returns the bytes from the   *)
(* cursor to the end and leaves the cursor at the end.                     *)
(***************************************************************************)
NoDelimiterAhead(buf, p) ==
    /\ p <= Len(buf)
    /\ \A k \in (p + 1)..Len(buf) : buf[k] \notin WHITESPACE_BYTES

C13_TokenAtEnd ==
    [][(/\ pc = "take"
        /\ parse_state # "Data"
        /\ NoDelimiterAhead(contents, whitespace_index)) =>
           (/\ pc' = "dispatch"
            /\ line' = Slice(contents, whitespace_index, Len(contents))
            /\ whitespace_index' = Len(contents))]_vars

(***************************************************************************)
(* C14: when take_line is called at p and the first whitespace byte at or  *)
(* after p is at q, the token is buffer[p..q) (empty when q = p), the      *)
(* cursor becomes q + 1 and prev_whitespace_index becomes p: one delimiter *)
(* is consumed by each call.                                               *)
(***************************************************************************)
DelimiterAhead(buf, p) ==
    \E q \in p..(Len(buf) - 1) : buf[q + 1] \in WHITESPACE_BYTES

FirstDelimiter(buf, p) ==
    CHOOSE q \in p..(Len(buf) - 1) :
        /\ buf[q + 1] \in WHITESPACE_BYTES
        /\ \A r \in p..(q - 1) : buf[r + 1] \notin WHITESPACE_BYTES

C14_TokenBeforeDelimiter ==
    [][(/\ pc = "take"
        /\ parse_state # "Data"
        /\ DelimiterAhead(contents, whitespace_index)) =>
           LET p == whitespace_index
               q == FirstDelimiter(contents, p)
           IN  /\ pc' = "dispatch"
               /\ line' = SubSeq(contents, p + 1, q)
               /\ whitespace_index' = q + 1
               /\ prev_whitespace_index' = p]_vars

\* the second of two adjacent delimiters has been consumed: an empty token
C14_Witness ==
    /\ pc = "dispatch"
    /\ parse_state # "Data"
    /\ line = << >>
    /\ prev_whitespace_index > 0
    /\ whitespace_index = prev_whitespace_index + 1
    /\ contents[prev_whitespace_index] \in WHITESPACE_BYTES

(***************************************************************************)
(* C15: in every state of a parse call, before and after every take_line   *)
(* and take_rest call, prev_whitespace_index <= whitespace_index <= length *)
(* of the buffer the tokenizer is applied to (the remainder slice in the   *)
(* while-let loop of the P2 arm), and whitespace_index never decreases     *)
(* within a call.                                                          *)
(***************************************************************************)
TokenizedBuffer == IF pc = "ascii" THEN line ELSE contents

CursorInBuffer ==
    /\ prev_whitespace_index <= whitespace_index
    /\ whitespace_index <= Len(TokenizedBuffer)

C15_CursorInvariant ==
    /\ [](pc # "done" => CursorInBuffer)
    /\ [][call' = call => whitespace_index' >= whitespace_index]_vars

(***************************************************************************)
(* C16: within a call the state moves only along Type -> Width -> Height   *)
(* -> MaxValue -> Data, one step per token that is neither empty nor       *)
(* '#'-led; empty and '#'-led tokens leave the state and the header fields *)
(* unchanged; a header field is written once; and once Data is reached one *)
(* decoding pass runs and the loop ends.                                   *)
(***************************************************************************)
NextState(s) ==
    CASE s = "Type" -> "Width"
      [] s = "Width" -> "Height"
      [] s = "Height" -> "MaxValue"
      [] s = "MaxValue" -> "Data"
      [] OTHER -> "Data"

HeaderFields == <<pgm_type, width, height, max_value>>

StateOrderStep ==
    /\ parse_state' # parse_state =>
           /\ parse_state' = NextState(parse_state)
           /\ pc = "dispatch" /\ ~Skipped(line)
    /\ (pc = "dispatch" /\ ~Skipped(line) /\ parse_state # "Data"
          /\ pc' # "done") =>
           parse_state' = NextState(parse_state)
    /\ (pc = "dispatch" /\ Skipped(line)) =>
           UNCHANGED <<parse_state, HeaderFields>>
    /\ \A k \in 1..4 : HeaderFields[k] # None => HeaderFields'[k] = HeaderFields[k]

DataPassEndsLoop ==
    (pc = "dispatch" /\ parse_state = "Data") => pc' \in {"ascii", "done"}

C16_StateOrder ==
    [][call' = call => (StateOrderStep /\ DataPassEndsLoop)]_vars

(***************************************************************************)
(* C17: in a P5 parse take_rest is invoked once, one whitespace byte is    *)
(* consumed after the max_value token, and every later byte, whatever its  *)
(* value, reaches the pixel decoder as sample data.                        *)
(***************************************************************************)
BinaryParse ==
    /\ DecimalFields(input)
    /\ input.magic = PGM_BINARY
    /\ parse_state = "Data"
    /\ unwrap(pgm_type) = PGM_BINARY

Samples(m, b) == IF m > 255 THEN decode_16bit(b, 0, << >>) ELSE b

C17_BinaryHandOff ==
    [][(call' = call /\ BinaryParse) =>
           /\ pc = "take" =>
                  /\ line' = input.body
                  /\ prev_whitespace_index' = Len(Header(input))
           /\ pc = "dispatch" =>
                  /\ pc' = "done"
                  /\ result' = "Ok"
                  /\ data' = Samples(unwrap(max_value), input.body)]_vars

(***************************************************************************)
(* C18: in a P2 parse a body token that is not a number ends the decoding: *)
(* parse returns the Image holding the samples decoded before that token,  *)
(* without an error and without a sample for the token.                    *)
(***************************************************************************)
\* the values of the whitespace-separated tokens of b up to the first one
\* that is not decimal; tok is the token being read
RECURSIVE ValuesBeforeStray(_, _)
ValuesBeforeStray(b, tok) ==
    IF b = << >> \/ Head(b) \in WHITESPACE_BYTES
    THEN IF tok # << >> /\ ~IsDigits(tok)
         THEN << >>
         ELSE (IF tok = << >> THEN << >> ELSE <<DecimalValue(tok)>>)
                  \o (IF b = << >> THEN << >>
                                   ELSE ValuesBeforeStray(Tail(b), << >>))
    ELSE ValuesBeforeStray(Tail(b), Append(tok, Head(b)))

StrayTextInput ==
    /\ PlainHeader(input)
    /\ input.magic = PGM_ASCII
    /\ input.body # << >>
    /\ IsDigits(<<Head(input.body)>>)
    /\ \E k \in 1..Len(input.body) :
           /\ input.body[k] \notin WHITESPACE_BYTES
           /\ ~IsDigits(<<input.body[k]>>)

C18_AsciiEndOfData ==
    (StrayTextInput /\ pc = "done") =>
        (result = "Ok" /\ data = ValuesBeforeStray(input.body, << >>))

(***************************************************************************)
(* C19: for a P5 buffer with max_value > 255 and a body b of odd length n, *)
(* parse returns (n+1)/2 samples: the pairs 256*b[2k] + b[2k+1], then the  *)
(* lone last byte unshifted.                                               *)
(***************************************************************************)
OddBody16Input ==
    /\ PlainHeader(input)
    /\ input.magic = PGM_BINARY
    /\ DecimalValue(input.max_value) > 255
    /\ Len(input.body) % 2 = 1

C19_OddBody16 ==
    OddBody16Input =>
        <>(/\ pc = "done"
           /\ result = "Ok"
           /\ data = Append(Pairs(input.body), input.body[Len(input.body)]))

====
